---- MODULE Spec2Model ----
(***************************************************************************)
(* Model of the moderation bot: the messageCreate handler of startBot      *)
(* (discord-bot), analyzeMessage (openai-client), MemStorage (storage) and *)
(* the observer set fed by the /ws endpoint (routes).                      *)
(*                                                                         *)
(* A handler invocation is a task.  JavaScript runs the code between two   *)
(* awaits without interruption, so every action below is one such run: it  *)
(* starts where a call returns and ends where the next call is issued.     *)
(***************************************************************************)
EXTENDS Integers, Sequences, FiniteSets, TLC

\* ---------------------------------------------------------------- bounds
MaxMsgs == 2        \* inbound message events
MaxConns == 2       \* observer connections that ever connect
MaxUpserts == 2     \* POST /api/config requests
MaxTime == 2        \* latest reading of the clock
MaxSeed == 3        \* entries the store holds when the service starts
MaxLimit == 3       \* largest limit asked of GET /api/logs/recent
MaxCalls == 4       \* startBot and stopBot calls
MaxSockets == 5     \* connections the dashboard's hook ever opens

Msgs == 1..MaxMsgs
Conns == 1..MaxConns

\* ------------------------------------------------------------ input sets
Servers == {"s1", "s2"}
Channels == {"c1", "c2"}
Users == {"u1"}

\* The account the bot is logged in as, and another automated account.
Self == "self"
Bots == {Self, "bot2"}

\* The authors of message events: author.id and author.bot.
Authors ==
  {[id |-> u, bot |-> FALSE] : u \in Users} \cup {[id |-> b, bot |-> TRUE] : b \in Bots}

\* JavaScript truthiness of an optional text column (null and "" are falsy).
Truthy(s) == s # ""

ActionOrder == <<"warn", "log", "kick", "ban", "custom">>

\* The label pushed on actionsTaken when an action succeeds.
Label(a) ==
  CASE a = "warn" -> "warned"
    [] a = "log" -> "logged"
    [] a = "kick" -> "kicked"
    [] a = "ban" -> "banned"
    [] a = "custom" -> "custom"

\* The configs an operator may post (insertModConfigSchema); banDuration 0
\* stands for null, "permanent".
ConfigSpace ==
  [serverId : Servers,
   sensitivity : {"medium"},
   primaryAction : {"log"},
   enableWarn : BOOLEAN, warnMessage : {"", "be nice"},
   enableLog : BOOLEAN, logChannelId : {"", "modlog"},
   enableKick : BOOLEAN,
   enableBan : BOOLEAN, banDuration : {0, 24},
   customCommand : {"", "!mute @user"},
   monitoredChannels : {{}, {"c1"}},
   monitorAllChannels : BOOLEAN]

NoConfig == [serverId |-> ""]

\* ------------------------------------------------- classification client
Fields == {"isViolation", "violationType", "confidenceScore", "reasoning"}

\* What the completion call can produce: a transport error or timeout, a
\* body that JSON.parse rejects, or a parsed object with some of the keys,
\* whose values are whatever the service wrote.
Responses ==
  {[kind |-> "error", has |-> {}, isViolation |-> FALSE, violationType |-> "",
    confidenceScore |-> 0],
   [kind |-> "badjson", has |-> {}, isViolation |-> TRUE, violationType |-> "spam",
    confidenceScore |-> 95],
   [kind |-> "json", has |-> {}, isViolation |-> FALSE, violationType |-> "",
    confidenceScore |-> 0],
   [kind |-> "json", has |-> Fields, isViolation |-> TRUE, violationType |-> "spam",
    confidenceScore |-> 95],
   [kind |-> "json", has |-> {"isViolation"}, isViolation |-> TRUE,
    violationType |-> "", confidenceScore |-> 0],
   [kind |-> "json", has |-> Fields, isViolation |-> FALSE, violationType |-> "none",
    confidenceScore |-> 12],
   [kind |-> "json", has |-> Fields, isViolation |-> TRUE, violationType |-> "phishing",
    confidenceScore |-> 150]}

\* FailOpen with the fault of failing closed: an error flags the message.
FailClosed ==
  [isViolation |-> TRUE, violationType |-> "none", confidenceScore |-> 0,
   reasoning |-> "Error analyzing message"]

FailOpen ==
  [isViolation |-> FALSE, violationType |-> "none", confidenceScore |-> 0,
   reasoning |-> "Error analyzing message"]

\* analyzeMessage: the try block's return, or the catch block's.
analyzeMessage(resp) ==
  IF resp.kind # "json"
  THEN FailOpen
  ELSE [isViolation |->
          IF "isViolation" \in resp.has /\ resp.isViolation THEN resp.isViolation ELSE FALSE,
        violationType |->
          IF "violationType" \in resp.has /\ Truthy(resp.violationType)
          THEN resp.violationType ELSE "none",
        confidenceScore |->
          IF "confidenceScore" \in resp.has /\ resp.confidenceScore # 0
          THEN resp.confidenceScore ELSE 0,
        reasoning |->
          IF "reasoning" \in resp.has THEN "why" ELSE "No violation detected"]

NoVerdict == [isViolation |-> FALSE, violationType |-> "", confidenceScore |-> 0,
              reasoning |-> ""]

\* ------------------------------------------------------------------ state
VARIABLES
  configs,           \* MemStorage.configs: serverId -> config, NoConfig if absent
  logs,              \* MemStorage.logs, in push order
  uuidCount,         \* number of randomUUID() results handed out
  upserts,           \* POST /api/config requests served
  tasks,             \* one handler invocation per message event
  members,           \* guild.members.cache
  connectedClients,  \* the Set of observer sockets, in insertion order
  readyState,        \* per socket: 0 never connected, 1 OPEN, 2 CLOSING, 3 CLOSED
  sent,              \* per socket: the payloads client.send was called with
  delivered,         \* per socket: the payloads that reached the observer
  broadcasts,        \* the payloads broadcastLog stringified, in call order
  response,          \* the body of the last REST response (res.json)
  botState,          \* discord-bot's botClient, the platform clients and the
                     \* startBot/stopBot calls in flight
  hook               \* the dashboard's useWebSocket hook: its refs and sockets

vars == <<configs, logs, uuidCount, upserts, tasks, members, connectedClients,
          readyState, sent, delivered, broadcasts, response, botState, hook>>

storeVars == <<configs, logs, uuidCount, upserts>>
hubVars == <<connectedClients, readyState, sent, delivered, broadcasts>>

NoResponse == [status |-> 0, route |-> "", body |-> <<>>]

IdleTask ==
  [pc |-> "idle", bot |-> FALSE, guildId |-> "", channelId |-> "", author |-> "",
   config |-> NoConfig, analysis |-> NoVerdict, log |-> 0, actionsTaken |-> <<>>,
   \* history of the invocation, read by the properties only
   calls |-> 0, deletes |-> 0, attempted |-> {}, succeeded |-> {}, failed |-> {},
   noMember |-> {}, banOptions |-> <<>>, sensitivity |-> "", commandText |-> <<>>]

\* discord-bot after routes.ts has called startBot() and it has returned:
\* botClient is the one client, whose listeners are registered.
BotRunning ==
  [botClient |-> 1, clients |-> <<"live">>,
   calls |-> <<[op |-> "start", pc |-> "returned"]>>, handled |-> 0]

\* The state every action outside discord-bot's lifecycle leaves alone.
botFrame == <<storeVars, tasks, members, hubVars, response, hook>>

\* The clients whose listeners are registered and that are not destroyed.
LiveClients == {i \in 1..Len(botState.clients) : botState.clients[i] = "live"}

\* startBot() is called: with a botClient it returns it at once, without
\* one it awaits getUncachableDiscordClient().
StartBotCall ==
  /\ Len(botState.calls) < MaxCalls
  /\ botState' = [botState EXCEPT !.calls =
                    Append(@, [op |-> "start",
                               pc |-> IF botState.botClient # 0 THEN "returned"
                                      ELSE "connecting"])]
  /\ UNCHANGED botFrame

\* getUncachableDiscordClient() has resolved with a new client: botClient is
\* assigned, the listeners are registered on it, startBot returns.
StartBotConnected(k) ==
  /\ k \in 1..Len(botState.calls)
  /\ botState.calls[k].pc = "connecting"
  /\ botState' = [botState EXCEPT !.clients = Append(@, "live"),
                                  !.botClient = Len(botState.clients) + 1,
                                  !.calls[k].pc = "returned"]
  /\ UNCHANGED botFrame

\* getUncachableDiscordClient() has rejected: the catch block sets botClient
\* to null and rethrows.
StartBotFailed(k) ==
  /\ k \in 1..Len(botState.calls)
  /\ botState.calls[k].pc = "connecting"
  /\ botState' = [botState EXCEPT !.botClient = 0, !.calls[k].pc = "threw"]
  /\ UNCHANGED botFrame

\* stopBot() is called: with a botClient it awaits botClient.destroy(),
\* without one it returns.
StopBotCall ==
  /\ Len(botState.calls) < MaxCalls
  /\ botState' = [botState EXCEPT
                    !.calls = Append(@, [op |-> "stop",
                                         pc |-> IF botState.botClient # 0
                                                THEN "destroying" ELSE "returned"]),
                    !.clients = IF botState.botClient # 0
                                THEN [@ EXCEPT ![botState.botClient] = "destroyed"]
                                ELSE @]
  /\ UNCHANGED botFrame

\* destroy() has resolved: botClient = null.
StopBotDone(k) ==
  /\ k \in 1..Len(botState.calls)
  /\ botState.calls[k].pc = "destroying"
  /\ botState' = [botState EXCEPT !.botClient = 0, !.calls[k].pc = "returned"]
  /\ UNCHANGED botFrame

\* A message arrives from the platform: every live client emits
\* messageCreate and its listener starts a handler invocation.
Inbound ==
  /\ botState' = [botState EXCEPT !.handled = Cardinality(LiveClients)]
  /\ UNCHANGED botFrame

\* discord-bot as the module is loaded: let botClient = null.
BotNotStarted == [botClient |-> 0, clients |-> <<>>, calls |-> <<>>, handled |-> 0]

\* useWebSocket before its effect has run: both refs hold null.
HookIdle ==
  [mounted |-> "never", wsRef |-> 0, timer |-> FALSE, sockets |-> <<>>, refreshes |-> 0]

\* The state the hook's steps leave alone.
hookFrame == <<storeVars, tasks, members, hubVars, response, botState>>

\* connect(): a new WebSocket, which wsRef.current is set to.
connect(h) ==
  [h EXCEPT !.sockets = Append(@, "connecting"), !.wsRef = Len(h.sockets) + 1]

\* The effect runs when the hook is mounted: connect().
HookMount ==
  /\ hook.mounted = "never"
  /\ Len(hook.sockets) < MaxSockets
  /\ hook' = connect([hook EXCEPT !.mounted = "yes"])
  /\ UNCHANGED hookFrame

\* The connection is established (onopen only logs).
HookSocketOpen(i) ==
  /\ i \in 1..Len(hook.sockets)
  /\ hook.sockets[i] = "connecting"
  /\ hook' = [hook EXCEPT !.sockets[i] = "open"]
  /\ UNCHANGED hookFrame

\* The frames a connection can deliver: a notification, another JSON
\* object, or text that JSON.parse rejects.
Frames == {"new_log", "other", "garbage"}

\* ws.onmessage: a new_log notification invalidates the dashboard's queries.
HookMessage(i, frame) ==
  /\ i \in 1..Len(hook.sockets)
  /\ hook.sockets[i] = "open"
  /\ hook.refreshes < MaxMsgs
  /\ hook' = [hook EXCEPT !.refreshes = IF frame = "new_log" THEN @ + 1 ELSE @]
  /\ UNCHANGED hookFrame

\* The server or the network starts closing the connection.
HookSocketClosing(i) ==
  /\ i \in 1..Len(hook.sockets)
  /\ hook.sockets[i] = "open"
  /\ hook' = [hook EXCEPT !.sockets[i] = "closing"]
  /\ UNCHANGED hookFrame

\* The connection is closed, by either side or by a failure, and ws.onclose
\* runs: wsRef.current = null, and connect is scheduled in 5 seconds.
HookSocketClose(i) ==
  /\ i \in 1..Len(hook.sockets)
  /\ hook.sockets[i] # "closed"
  /\ hook' = [hook EXCEPT !.sockets[i] = "closed", !.wsRef = 0, !.timer = TRUE]
  /\ UNCHANGED hookFrame

\* The 5 seconds are over: the timer's callback calls connect().
HookTimerFire ==
  /\ hook.timer
  /\ Len(hook.sockets) < MaxSockets
  /\ hook' = connect([hook EXCEPT !.timer = FALSE])
  /\ UNCHANGED hookFrame

\* The effect's cleanup runs when the hook is unmounted: the pending timer
\* is cleared and the connection wsRef holds, if any, is told to close.
HookUnmount ==
  /\ hook.mounted = "yes"
  /\ hook' = [hook EXCEPT !.mounted = "gone",
                          !.timer = FALSE,
                          !.sockets = IF hook.wsRef # 0
                                      THEN [@ EXCEPT ![hook.wsRef] = "closing"] ELSE @]
  /\ UNCHANGED hookFrame

Init ==
  /\ configs = [s \in Servers |-> NoConfig]
  /\ logs = <<>>
  /\ uuidCount = 0
  /\ upserts = 0
  /\ tasks = [m \in Msgs |-> IdleTask]
  /\ members = {}
  /\ connectedClients = <<>>
  /\ readyState = [c \in Conns |-> 0]
  /\ sent = [c \in Conns |-> <<>>]
  /\ delivered = [c \in Conns |-> <<>>]
  /\ broadcasts = <<>>
  /\ response = NoResponse
  /\ botState = BotRunning
  /\ hook = HookIdle

\* ------------------------------------------------------------ MemStorage
getConfig(serverId) ==
  IF serverId \in DOMAIN configs THEN configs[serverId] ELSE NoConfig

\* { ...insertConfig, id }
Stored(c, id) == [f \in DOMAIN c \cup {"id"} |-> IF f = "id" THEN id ELSE c[f]]

\* createOrUpdateConfig with the fault of a new uuid at every upsert.
createOrUpdateConfigNewId(insertConfig) ==
  /\ configs' = [configs EXCEPT ![insertConfig.serverId] =
                    Stored(insertConfig, uuidCount + 1)]
  /\ uuidCount' = uuidCount + 1

\* createOrUpdateConfig: keeps the id of an existing config, else a new uuid.
createOrUpdateConfig(insertConfig) ==
  LET existing == configs[insertConfig.serverId]
      fresh == existing = NoConfig
      id == IF fresh THEN uuidCount + 1 ELSE existing.id
  IN /\ configs' = [configs EXCEPT ![insertConfig.serverId] = Stored(insertConfig, id)]
     /\ uuidCount' = IF fresh THEN uuidCount + 1 ELSE uuidCount

\* POST /api/config: the body passed validation; the stored config is sent.
PostConfig(c) ==
  /\ upserts < MaxUpserts
  /\ upserts' = upserts + 1
  /\ createOrUpdateConfig(c)
  /\ response' = [status |-> 200, route |-> "config", body |-> configs'[c.serverId]]
  /\ UNCHANGED <<logs, tasks, members, hubVars, botState, hook>>

\* The body GET /api/config/:serverId answers with for a server that has no
\* config; nothing is stored.
DefaultConfig(serverId) ==
  [serverId |-> serverId, sensitivity |-> "medium", primaryAction |-> "log",
   enableLog |-> TRUE, monitorAllChannels |-> TRUE]

\* GET /api/config/:serverId
GetConfig(serverId) ==
  /\ response' = [status |-> 200, route |-> "configRead",
                  body |-> IF getConfig(serverId) = NoConfig
                           THEN DefaultConfig(serverId) ELSE getConfig(serverId)]
  /\ UNCHANGED <<storeVars, tasks, members, hubVars, botState, hook>>

\* The clock never runs backwards: a reading is no earlier than the
\* timestamp of any entry already stored.
LastStamp ==
  IF logs = <<>> THEN 0
  ELSE CHOOSE x \in {logs[i].timestamp : i \in 1..Len(logs)} :
         \A i \in 1..Len(logs) : logs[i].timestamp <= x

\* The readings new Date() can give.
Readings == LastStamp..MaxTime

\* createLog: the entry pushed on logs (its id is a new uuid, its timestamp
\* the reading `ts` of the clock).
NewLog(m, t, ts) ==
  [id |-> uuidCount + 1,
   timestamp |-> ts,
   serverId |-> t.guildId,
   userId |-> t.author,
   channelId |-> t.channelId,
   messageContent |-> m,
   violationType |-> t.analysis.violationType,
   confidenceScore |-> t.analysis.confidenceScore,
   aiReasoning |-> t.analysis.reasoning,
   actionTaken |-> "logged"]

\* The comparator of both sorts: negative or zero keeps a before b.
Compare(a, b) == b.timestamp - a.timestamp

\* Array.prototype.sort with Compare is stable: x, the element that came
\* last, goes behind every element it does not have to precede.
InsertLast(sorted, x) ==
  LET k == Cardinality({i \in 1..Len(sorted) : Compare(sorted[i], x) <= 0})
  IN SubSeq(sorted, 1, k) \o <<x>> \o SubSeq(sorted, k + 1, Len(sorted))

RECURSIVE Sorted(_)
\* [...arr].sort(Compare)
Sorted(arr) ==
  IF arr = <<>> THEN <<>>
  ELSE InsertLast(Sorted(SubSeq(arr, 1, Len(arr) - 1)), arr[Len(arr)])

\* arr.slice(0, end): a negative end counts from the end of the array.
Slice(arr, end) ==
  LET e == IF end < 0 THEN Len(arr) + end ELSE end
      n == IF e < 0 THEN 0 ELSE IF e > Len(arr) THEN Len(arr) ELSE e
  IN SubSeq(arr, 1, n)

\* LogsAfterSort with the fault of sorting this.logs itself.
LogsSortedInPlace == Sorted(logs)

\* What this.logs holds after a read: both reads sort a copy.
LogsAfterSort == logs

\* getLogs
getLogs == Sorted(logs)

\* getRecentLogs with the fault of slicing before sorting.
getRecentLogsUnsorted(limit) == Sorted(Slice(logs, limit))

\* getRecentLogs(limit)
getRecentLogs(limit) == Slice(Sorted(logs), limit)

\* getRecentLogs's default for a missing limit, also the route's.
DefaultLimit == 5

\* The query strings of GET /api/logs/recent: no limit, or a limit that
\* parseInt reads as a number.
Queries ==
  {[has |-> FALSE, limit |-> 0]} \cup {[has |-> TRUE, limit |-> n] : n \in (0 - 1)..MaxLimit}

\* GET /api/logs
GetLogs ==
  /\ response' = [status |-> 200, route |-> "logs", body |-> getLogs]
  /\ logs' = LogsAfterSort
  /\ UNCHANGED <<configs, uuidCount, upserts, tasks, members, hubVars, botState, hook>>

\* GET /api/logs/recent
GetRecentLogs(q) ==
  /\ response' = [status |-> 200, route |-> "recent",
                  body |-> getRecentLogs(IF q.has THEN q.limit ELSE DefaultLimit)]
  /\ logs' = LogsAfterSort
  /\ UNCHANGED <<configs, uuidCount, upserts, tasks, members, hubVars, botState, hook>>

RECURSIVE SumScores(_)
\* this.logs.reduce((sum, log) => sum + log.confidenceScore, 0)
SumScores(arr) ==
  IF arr = <<>> THEN 0
  ELSE SumScores(SubSeq(arr, 1, Len(arr) - 1)) + arr[Len(arr)].confidenceScore

\* Round with the fault of Math.floor.
RoundDown(sum, n) == sum \div n

\* Math.round(sum / n) for a sum that is not negative: halves round up.
Round(sum, n) == (2 * sum + n) \div (2 * n)

\* getDashboardStats
getDashboardStats ==
  [totalViolations |-> Len(logs),
   actionsTaken |-> Len(logs),
   serversMonitored |-> Cardinality({s \in DOMAIN configs : configs[s] # NoConfig}),
   detectionAccuracy |-> IF Len(logs) > 0 THEN Round(SumScores(logs), Len(logs)) ELSE 0]

\* GET /api/stats/dashboard
GetDashboardStats ==
  /\ response' = [status |-> 200, route |-> "stats", body |-> getDashboardStats]
  /\ UNCHANGED <<storeVars, tasks, members, hubVars, botState, hook>>

\* ------------------------------------------------------------ broadcast hub
addWebSocketClient(c) ==
  connectedClients' =
    IF \E i \in 1..Len(connectedClients) : connectedClients[i] = c
    THEN connectedClients ELSE Append(connectedClients, c)

\* removeWebSocketClient with the fault of a close listener that is never
\* registered.
removeNothing(c) == connectedClients' = connectedClients

\* ws.on("close"): connectedClients.delete(ws)
removeWebSocketClient(c) ==
  connectedClients' = SelectSeq(connectedClients, LAMBDA x : x # c)

\* wss.on("connection"): the socket is OPEN when the server hands it over.
WsConnect(c) ==
  /\ readyState[c] = 0
  /\ readyState' = [readyState EXCEPT ![c] = 1]
  /\ addWebSocketClient(c)
  /\ UNCHANGED <<storeVars, tasks, members, sent, delivered, broadcasts, response, botState, hook>>

\* The closing handshake has started; the close event has not fired yet.
WsClosing(c) ==
  /\ readyState[c] = 1
  /\ readyState' = [readyState EXCEPT ![c] = 2]
  /\ UNCHANGED <<storeVars, tasks, members, connectedClients, sent, delivered, broadcasts, response, botState, hook>>

\* The socket is CLOSED and its close event runs the listener.
WsClose(c) ==
  /\ readyState[c] \in {1, 2}
  /\ readyState' = [readyState EXCEPT ![c] = 3]
  /\ removeWebSocketClient(c)
  /\ UNCHANGED <<storeVars, tasks, members, sent, delivered, broadcasts, response, botState, hook>>

\* OpenClients with the fault of a missing readyState test.
AllClients == {connectedClients[i] : i \in 1..Len(connectedClients)}

\* The sockets broadcastLog sends to: those of the set that report OPEN.
OpenClients ==
  {connectedClients[i] : i \in {j \in 1..Len(connectedClients) :
                                  readyState[connectedClients[j]] = 1}}

\* JSON.stringify({type: "new_log", data: log}), taken when broadcastLog runs.
Payload(log) == [type |-> "new_log", data |-> log]

\* broadcastLog with the fault of publishing every payload twice.
broadcastLogTwice(log, lost) ==
  /\ broadcasts' = broadcasts \o <<Payload(log), Payload(log)>>
  /\ sent' = [c \in Conns |->
                IF c \in OpenClients
                THEN sent[c] \o <<Payload(log), Payload(log)>> ELSE sent[c]]
  /\ delivered' = [c \in Conns |->
                     IF c \in OpenClients \ lost
                     THEN delivered[c] \o <<Payload(log), Payload(log)>>
                     ELSE delivered[c]]

\* broadcastLog with the fault of a loop that ends at the first send that
\* fails: the sockets behind it in the set get nothing.
broadcastLogAbort(log, lost) ==
  LET behind == {connectedClients[i] : i \in {j \in 1..Len(connectedClients) :
                   \E k \in 1..(j - 1) : connectedClients[k] \in lost}}
      reached == OpenClients \ behind
  IN /\ broadcasts' = Append(broadcasts, Payload(log))
     /\ sent' = [c \in Conns |->
                   IF c \in reached THEN Append(sent[c], Payload(log)) ELSE sent[c]]
     /\ delivered' = [c \in Conns |->
                        IF c \in reached \ lost
                        THEN Append(delivered[c], Payload(log)) ELSE delivered[c]]

\* broadcastLog: one send per OPEN socket; `lost` are the sends that the
\* transport accepts and then fails to deliver (send reports nothing).
broadcastLog(log, lost) ==
  /\ broadcasts' = Append(broadcasts, Payload(log))
  /\ sent' = [c \in Conns |->
                IF c \in OpenClients THEN Append(sent[c], Payload(log)) ELSE sent[c]]
  /\ delivered' = [c \in Conns |->
                     IF c \in OpenClients \ lost
                     THEN Append(delivered[c], Payload(log)) ELSE delivered[c]]

\* ------------------------------------------------------- the guild's cache
GuildMemberAdd(u) ==
  /\ u \notin members
  /\ members' = members \cup {u}
  /\ UNCHANGED <<storeVars, tasks, hubVars, response, botState, hook>>

GuildMemberRemove(u) ==
  /\ u \in members
  /\ members' = members \ {u}
  /\ UNCHANGED <<storeVars, tasks, hubVars, response, botState, hook>>

\* ------------------------------------------------- messageCreate handler
\* Configured with the fault of enforcing primaryAction: the action it
\* names runs whatever its own switch says.
ConfiguredOrPrimary(cfg, a) ==
  \/ cfg.primaryAction = a
  \/ CASE a = "warn" -> cfg.enableWarn /\ Truthy(cfg.warnMessage)
        [] a = "log" -> cfg.enableLog /\ Truthy(cfg.logChannelId)
        [] a = "kick" -> cfg.enableKick
        [] a = "ban" -> cfg.enableBan
        [] a = "custom" -> Truthy(cfg.customCommand)

\* The condition of the `if` that guards an action's try block.
Configured(cfg, a) ==
  CASE a = "warn" -> cfg.enableWarn /\ Truthy(cfg.warnMessage)
    [] a = "log" -> cfg.enableLog /\ Truthy(cfg.logChannelId)
    [] a = "kick" -> cfg.enableKick
    [] a = "ban" -> cfg.enableBan
    [] a = "custom" -> Truthy(cfg.customCommand)

\* Issues with the fault of no member lookup: kick and ban are called for
\* an author the cache does not hold.
IssuesUnchecked(t, a) == Configured(t.config, a)

\* Issues with the fault of reading the config anew at every action.
IssuesFromStore(t, a) ==
  /\ getConfig(t.guildId) # NoConfig
  /\ Configured(getConfig(t.guildId), a)
  /\ a \in {"kick", "ban"} => t.author \in members

\* An action issues its platform call when it is configured and, for kick
\* and ban, guild.members.cache holds the author.
Issues(t, a) ==
  /\ Configured(t.config, a)
  /\ a \in {"kick", "ban"} => t.author \in members

\* The wait a task enters when it issues the first call of an action.
PcOf(a) == IF a = "log" THEN "logFetch" ELSE a

ActionPcs == {"warn", "logFetch", "logSend", "kick", "ban", "custom"}

IdxOf(pc) ==
  CASE pc = "warn" -> 1
    [] pc \in {"logFetch", "logSend"} -> 2
    [] pc = "kick" -> 3
    [] pc = "ban" -> 4
    [] pc = "custom" -> 5

\* NextAction with the fault of one try block around all five actions: after
\* a failed call no further action is started.
NextActionAbort(t, from) ==
  LET S == {i \in from..5 : Issues(t, ActionOrder[i]) /\ t.failed = {}}
  IN IF S = {} THEN 6 ELSE CHOOSE i \in S : \A j \in S : i <= j

\* Index of the first action, from `from` on, that issues a call; 6 if none.
NextAction(t, from) ==
  LET S == {i \in from..5 : Issues(t, ActionOrder[i])}
  IN IF S = {} THEN 6 ELSE CHOOSE i \in S : \A j \in S : i <= j

RECURSIVE Join(_)
\* actionsTaken.join(", ")
Join(labels) ==
  IF Len(labels) = 0 THEN ""
  ELSE IF Len(labels) = 1 THEN labels[1]
  ELSE labels[1] \o ", " \o Join(Tail(labels))

\* Finalize with the fault of dropping the length test: an empty list
\* overwrites the entry's text.
FinalizeAlways(t) == [logs EXCEPT ![t.log].actionTaken = Join(t.actionsTaken)]

\* Finalize with the fault of a `log` shared by the invocations: the write
\* lands on the entry appended last.
FinalizeLast(t) ==
  IF Len(t.actionsTaken) > 0
  THEN [logs EXCEPT ![Len(logs)].actionTaken = Join(t.actionsTaken)]
  ELSE logs

\* "Update log with actions taken": the entry object is the one in logs.
Finalize(t) ==
  IF Len(t.actionsTaken) > 0
  THEN [logs EXCEPT ![t.log].actionTaken = Join(t.actionsTaken)]
  ELSE logs

\* DeletesMessage with the fault of deleting only after a successful action.
DeletesIfActed(t) == Len(t.actionsTaken) > 0

\* Whether the handler goes on to message.delete() after the finalize step.
DeletesMessage(t) == TRUE

\* member.ban(options): the options the handler passes.
BanOptions(t) ==
  [reason |-> "Automated moderation: " \o t.analysis.violationType,
   deleteMessageSeconds |-> 86400]

\* A command text cut into its placeholders and the text between them.
Tokens(cmd) ==
  CASE cmd = "" -> <<>>
    [] cmd = "!mute @user" -> <<"!mute ", "@user">>
    [] cmd = "!move @user @channel @user @channel" ->
         <<"!move ", "@user", " ", "@channel", " ", "@user", " ", "@channel">>

\* String.prototype.replace with a string pattern: the first occurrence of
\* the pattern is replaced, later ones stay.
Replace(text, pattern, by) ==
  LET S == {i \in 1..Len(text) : text[i] = pattern}
  IN IF S = {} THEN text
     ELSE [text EXCEPT ![CHOOSE i \in S : \A j \in S : i <= j] = by]

\* The text the custom command sends, as tokens.
CommandText(t) ==
  Replace(Replace(Tokens(t.config.customCommand), "@user", "<@" \o t.author \o ">"),
          "@channel", "<#" \o t.channelId \o ">")

\* The task as it issues the call of action a.
Issued(t, a) ==
  [t EXCEPT !.pc = PcOf(a), !.attempted = @ \cup {a},
            !.banOptions = IF a = "ban" THEN BanOptions(t) ELSE @,
            !.commandText = IF a = "custom" THEN CommandText(t) ELSE @]

\* Resume with the fault of writing the entry's text at every step instead
\* of once after the last action.
ResumeEager(m, t, from) ==
  LET i == NextAction(t, from)
      passed == {ActionOrder[k] : k \in {j \in from..(i - 1) :
                                          Configured(t.config, ActionOrder[j])}}
      u == [t EXCEPT !.noMember = @ \cup passed]
  IN /\ tasks' = [tasks EXCEPT ![m] =
                    IF i <= 5
                    THEN Issued(u, ActionOrder[i])
                    ELSE [u EXCEPT !.pc = "delete", !.deletes = @ + 1]]
     /\ logs' = Finalize(u)

\* Run the handler from action number `from` to its next await: either the
\* call of the next action that issues one, or the finalize step and the
\* call of message.delete().
Resume(m, t, from) ==
  LET i == NextAction(t, from)
      passed == {ActionOrder[k] : k \in {j \in from..(i - 1) :
                                          Configured(t.config, ActionOrder[j])}}
      u == [t EXCEPT !.noMember = @ \cup passed]
  IN IF i <= 5
     THEN /\ tasks' = [tasks EXCEPT ![m] = Issued(u, ActionOrder[i])]
          /\ logs' = logs
     ELSE /\ tasks' = [tasks EXCEPT ![m] =
                         IF DeletesMessage(u)
                         THEN [u EXCEPT !.pc = "delete", !.deletes = @ + 1]
                         ELSE [u EXCEPT !.pc = "done"]]
          /\ logs' = Finalize(u)

\* Dispatched with the fault of a listener that is awaited: an event is
\* handed over only when every earlier invocation has returned.
DispatchedSerially(m) ==
  \A k \in Msgs : k < m => tasks[k].pc \in {"done", "rejected"}

\* The emitter calls the async listener for each event as it arrives and
\* does not wait for the promise it returns (events are numbered in their
\* order of arrival).
Dispatched(m) ==
  \A k \in Msgs : k < m => tasks[k].pc # "idle"

\* IgnoresAuthor with the fault of a missing filter.
IgnoresNobody(bot) == FALSE

\* "Ignore bot messages": if (message.author.bot) return
IgnoresAuthor(bot) == bot

\* The event fires: bot authors are ignored, else getConfig is called.
MessageCreate(m, bot, guild, channel, author) ==
  /\ tasks[m].pc = "idle"
  /\ Dispatched(m)
  /\ tasks' = [tasks EXCEPT ![m] =
                 [@ EXCEPT !.bot = bot, !.guildId = guild, !.channelId = channel,
                           !.author = author,
                           !.pc = IF IgnoresAuthor(bot) THEN "done" ELSE "config",
                           !.config = IF IgnoresAuthor(bot) THEN NoConfig
                                      ELSE getConfig(guild)]]
  /\ UNCHANGED <<storeVars, members, hubVars, response, botState, hook>>

\* Monitored with the fault of ignoring the channel list.
MonitoredAny(t) == t.config # NoConfig

\* Whether the filter lets the message through to classification.
Monitored(t) ==
  /\ t.config # NoConfig
  /\ t.config.monitorAllChannels \/ t.channelId \in t.config.monitoredChannels

\* The sensitivity passed to analyzeMessage: config.sensitivity || "medium"
Sensitivity(cfg) == IF Truthy(cfg.sensitivity) THEN cfg.sensitivity ELSE "medium"

\* getConfig has returned: filter, then call analyzeMessage.
Filter(m) ==
  /\ tasks[m].pc = "config"
  /\ tasks' = [tasks EXCEPT ![m] =
                 IF Monitored(@)
                 THEN [@ EXCEPT !.pc = "classify", !.calls = @ + 1,
                                !.sensitivity = Sensitivity(tasks[m].config)]
                 ELSE [@ EXCEPT !.pc = "done"]]
  /\ UNCHANGED <<storeVars, members, hubVars, response, botState, hook>>

\* Decide with the fault of testing the score instead of the flag.
DecideByScore(analysis) == analysis.confidenceScore > 0

\* "If violation detected, take action"
Decide(analysis) == analysis.isViolation

\* analyzeMessage has returned: decide, then call createLog.
Classified(m, resp, ts) ==
  /\ tasks[m].pc = "classify"
  /\ LET t == [tasks[m] EXCEPT !.analysis = analyzeMessage(resp),
                               !.failed = IF resp.kind # "json"
                                          THEN @ \cup {"classify"} ELSE @]
     IN IF Decide(t.analysis)
        THEN /\ ts \in Readings
             /\ logs' = Append(logs, NewLog(m, t, ts))
             /\ uuidCount' = uuidCount + 1
             /\ tasks' = [tasks EXCEPT ![m] =
                            [t EXCEPT !.pc = "record", !.log = Len(logs) + 1]]
        ELSE /\ tasks' = [tasks EXCEPT ![m] = [t EXCEPT !.pc = "done"]]
             /\ UNCHANGED <<logs, uuidCount>>
  /\ UNCHANGED <<configs, upserts, members, hubVars, response, botState, hook>>

\* createLog has returned: broadcast, then start the actions.
Recorded(m, lost) ==
  /\ tasks[m].pc = "record"
  /\ lost \subseteq OpenClients
  /\ broadcastLog(logs[tasks[m].log], lost)
  /\ Resume(m, tasks[m], 1)
  /\ UNCHANGED <<configs, uuidCount, upserts, members, connectedClients, readyState, response, botState, hook>>

\* Caught with the fault of no try block at all: a call that throws ends
\* the handler.
CaughtNothing(pc) == FALSE

\* Caught with the fault of no try block around message.delete().
CaughtNoDelete(pc) == pc \in ActionPcs

\* Whether the call a task waits for at `pc` sits in a try block whose catch
\* only logs the error.
Caught(pc) == pc \in ActionPcs \cup {"delete"}

\* Pushed with the fault of pushing the label before the call's outcome is
\* known.
PushedAlways(labels, pc, ok) ==
  IF pc # "logFetch" THEN Append(labels, Label(ActionOrder[IdxOf(pc)])) ELSE labels

\* actionsTaken after the call at `pc` has returned: the action's label is
\* pushed when its last call succeeds (the channel fetch pushes nothing).
Pushed(labels, pc, ok) ==
  IF ok /\ pc # "logFetch" THEN Append(labels, Label(ActionOrder[IdxOf(pc)])) ELSE labels

\* The outcome of the call at `pc`, noted in the task's history.
Noted(t, ok) ==
  LET a == IF t.pc = "delete" THEN "delete" ELSE ActionOrder[IdxOf(t.pc)]
  IN IF ~ok THEN [t EXCEPT !.failed = @ \cup {a}]
     ELSE IF t.pc = "logFetch" THEN t
     ELSE [t EXCEPT !.succeeded = @ \cup {a}]

\* A platform call of an action has returned (ok) or thrown.
ActionReturn(m, ok) ==
  /\ tasks[m].pc \in ActionPcs
  /\ LET pc == tasks[m].pc
         t == [Noted(tasks[m], ok) EXCEPT !.actionsTaken = Pushed(@, pc, ok)]
     IN IF ~ok /\ ~Caught(pc)
        THEN /\ tasks' = [tasks EXCEPT ![m] = [t EXCEPT !.pc = "rejected"]]
             /\ logs' = logs
        ELSE IF ok /\ pc = "logFetch"
        THEN /\ tasks' = [tasks EXCEPT ![m] = [t EXCEPT !.pc = "logSend"]]
             /\ logs' = logs
        ELSE Resume(m, t, IdxOf(pc) + 1)
  /\ UNCHANGED <<configs, uuidCount, upserts, members, hubVars, response, botState, hook>>

\* channels.fetch has resolved without a channel: `if (logChannel)` skips
\* the post, nothing is pushed and nothing is thrown.
FetchedNothing(m) ==
  /\ tasks[m].pc = "logFetch"
  /\ Resume(m, tasks[m], IdxOf("logFetch") + 1)
  /\ UNCHANGED <<configs, uuidCount, upserts, members, hubVars, response, botState, hook>>

\* message.delete() has returned (ok) or thrown.
DeleteReturn(m, ok) ==
  /\ tasks[m].pc = "delete"
  /\ tasks' = [tasks EXCEPT ![m] =
                 [Noted(@, ok) EXCEPT
                    !.pc = IF ~ok /\ ~Caught("delete") THEN "rejected" ELSE "done"]]
  /\ UNCHANGED <<storeVars, members, hubVars, response, botState, hook>>

\* ------------------------------------------------------ the specifications
\* The configs posted while messages are in flight: server s1, all channels
\* monitored, the warn action on or off, no other action.
PostedConfigs ==
  {c \in ConfigSpace :
     /\ c.serverId = "s1"
     /\ c.warnMessage = "be nice"
     /\ ~c.enableLog /\ c.logChannelId = ""
     /\ ~c.enableKick /\ ~c.enableBan /\ c.banDuration = 0 /\ c.customCommand = ""
     /\ c.monitorAllChannels /\ c.monitoredChannels = {}}

\* Configs that monitor channel c1 alone or no channel at all.
FilterConfigs ==
  {c \in ConfigSpace :
     /\ c.serverId = "s1"
     /\ c.enableWarn /\ c.warnMessage = "be nice"
     /\ ~c.enableLog /\ c.logChannelId = ""
     /\ ~c.enableKick /\ ~c.enableBan /\ c.banDuration = 0 /\ c.customCommand = ""
     /\ ~c.monitorAllChannels}

\* Configs whose ban carries a duration, next to the warn action.
BanConfigs ==
  {c \in ConfigSpace :
     /\ c.serverId = "s1"
     /\ c.warnMessage = "be nice"
     /\ ~c.enableLog /\ c.logChannelId = ""
     /\ ~c.enableKick /\ c.enableBan /\ c.banDuration # 0 /\ c.customCommand = ""
     /\ c.monitorAllChannels /\ c.monitoredChannels = {}}

\* Configs whose custom command names each placeholder twice, next to the
\* warn action.
CommandConfigs ==
  {[c EXCEPT !.customCommand = "!move @user @channel @user @channel"] : c \in PostedConfigs}

\* The completions answered while messages are in flight.
PostedResponses ==
  {r \in Responses : r.kind # "json" \/ (r.has = Fields /\ r.confidenceScore <= 100)}

\* Config posts and concurrent message tasks, with no observer connected.
Next ==
  \/ \E c \in PostedConfigs : PostConfig(c)
  \/ \E m \in Msgs, a \in Authors, g \in Servers :
       MessageCreate(m, a.bot, g, "c1", a.id)
  \/ \E m \in Msgs : Filter(m)
  \/ \E m \in Msgs, resp \in PostedResponses : Classified(m, resp, LastStamp)
  \/ \E m \in Msgs : Recorded(m, {})
  \/ \E m \in Msgs, ok \in BOOLEAN : ActionReturn(m, ok)
  \/ \E m \in Msgs, ok \in BOOLEAN : DeleteReturn(m, ok)

Spec == Init /\ [][Next]_vars

\* One message against every combination of the five actions' settings (all
\* channels monitored), against the channel filter's settings, and against
\* a server without a config: the service before or after one config post,
\* with no observer connected.
ExecConfigs ==
  {c \in ConfigSpace :
     c.serverId = "s1" /\ c.banDuration = 0 /\ c.monitorAllChannels /\ c.monitoredChannels = {}}
  \cup FilterConfigs \cup BanConfigs \cup CommandConfigs

ExecMsgs == {m \in Msgs : \A k \in Msgs : m <= k}

InitExec ==
  /\ \/ /\ \E c \in ExecConfigs :
             configs = [s \in Servers |-> IF s = c.serverId THEN Stored(c, 1) ELSE NoConfig]
        /\ uuidCount = 1
        /\ upserts = 1
     \/ /\ configs = [s \in Servers |-> NoConfig]
        /\ uuidCount = 0
        /\ upserts = 0
  /\ logs = <<>>
  /\ tasks = [m \in Msgs |-> IdleTask]
  /\ members = {}
  /\ connectedClients = <<>>
  /\ readyState = [c \in Conns |-> 0]
  /\ sent = [c \in Conns |-> <<>>]
  /\ delivered = [c \in Conns |-> <<>>]
  /\ broadcasts = <<>>
  /\ response = NoResponse
  /\ botState = BotRunning
  /\ hook = HookIdle

NextExec ==
  \/ \E m \in ExecMsgs, a \in Authors, g \in Servers, ch \in Channels :
       MessageCreate(m, a.bot, g, ch, a.id)
  \/ \E m \in ExecMsgs : Filter(m)
  \/ \E m \in ExecMsgs, resp \in Responses : Classified(m, resp, LastStamp)
  \/ \E m \in ExecMsgs : Recorded(m, {})
  \/ \E m \in ExecMsgs, ok \in BOOLEAN : ActionReturn(m, ok)
  \/ \E m \in ExecMsgs : FetchedNothing(m)
  \/ \E m \in ExecMsgs, ok \in BOOLEAN : DeleteReturn(m, ok)
  \/ \E u \in Users : GuildMemberAdd(u)
  \/ \E u \in Users : GuildMemberRemove(u)

SpecExec == InitExec /\ [][NextExec]_vars

\* One message and the observers: the service after one config post, with
\* sockets that connect, start closing and close while the message is
\* handled, and sends that the transport loses.
InitHub ==
  /\ \E c \in PostedConfigs :
       configs = [s \in Servers |-> IF s = c.serverId THEN Stored(c, 1) ELSE NoConfig]
  /\ uuidCount = 1
  /\ upserts = 1
  /\ logs = <<>>
  /\ tasks = [m \in Msgs |-> IdleTask]
  /\ members = {}
  /\ connectedClients = <<>>
  /\ readyState = [c \in Conns |-> 0]
  /\ sent = [c \in Conns |-> <<>>]
  /\ delivered = [c \in Conns |-> <<>>]
  /\ broadcasts = <<>>
  /\ response = NoResponse
  /\ botState = BotRunning
  /\ hook = HookIdle

NextHub ==
  \/ \E m \in ExecMsgs, a \in Authors, g \in Servers, ch \in Channels :
       MessageCreate(m, a.bot, g, ch, a.id)
  \/ \E m \in ExecMsgs : Filter(m)
  \/ \E m \in ExecMsgs, resp \in PostedResponses : Classified(m, resp, LastStamp)
  \/ \E m \in ExecMsgs, lost \in SUBSET Conns : Recorded(m, lost)
  \/ \E m \in ExecMsgs, ok \in BOOLEAN : ActionReturn(m, ok)
  \/ \E m \in ExecMsgs, ok \in BOOLEAN : DeleteReturn(m, ok)
  \/ \E c \in Conns : WsConnect(c)
  \/ \E c \in Conns : WsClosing(c)
  \/ \E c \in Conns : WsClose(c)

SpecHub == InitHub /\ [][NextHub]_vars

\* The audit store under its operations: the store starts with entries and
\* a config written at startup (seedData), one message task appends and
\* finalizes an entry, and the two reads of the entries are served in
\* between.
StoreResponses == {r \in Responses : r.has = Fields /\ r.confidenceScore <= 100}

\* An entry written by seedData: createLog gives it the next uuid and the
\* clock's reading.
SeedLog(id, ts) ==
  [id |-> id, timestamp |-> ts, serverId |-> "s1", userId |-> "u1", channelId |-> "c1",
   messageContent |-> 0, violationType |-> "spam", confidenceScore |-> 95,
   aiReasoning |-> "why", actionTaken |-> "warned, logged"]

\* The stores seedData can leave: entries whose timestamps never decrease.
SeededLogs ==
  UNION {{[i \in 1..n |-> SeedLog(i, stamps[i])] :
            stamps \in {f \in [1..n -> 0..MaxTime] :
                          \A i \in 1..n : \A j \in i..n : f[i] <= f[j]}} :
         n \in 0..MaxSeed}

InitStore ==
  /\ logs \in SeededLogs
  /\ \E c \in PostedConfigs :
       /\ c.enableWarn
       /\ configs = [s \in Servers |->
                       IF s = c.serverId THEN Stored(c, Len(logs) + 1) ELSE NoConfig]
  /\ uuidCount = Len(logs) + 1
  /\ upserts = 1
  /\ tasks = [m \in Msgs |-> IdleTask]
  /\ members = {}
  /\ connectedClients = <<>>
  /\ readyState = [c \in Conns |-> 0]
  /\ sent = [c \in Conns |-> <<>>]
  /\ delivered = [c \in Conns |-> <<>>]
  /\ broadcasts = <<>>
  /\ response = NoResponse
  /\ botState = BotRunning
  /\ hook = HookIdle

NextStore ==
  \/ \E m \in ExecMsgs : MessageCreate(m, FALSE, "s1", "c1", "u1")
  \/ \E m \in ExecMsgs : Filter(m)
  \/ \E m \in ExecMsgs, resp \in StoreResponses, ts \in 0..MaxTime :
       Classified(m, resp, ts)
  \/ \E m \in ExecMsgs : Recorded(m, {})
  \/ \E m \in ExecMsgs, ok \in BOOLEAN : ActionReturn(m, ok)
  \/ \E m \in ExecMsgs, ok \in BOOLEAN : DeleteReturn(m, ok)
  \/ GetLogs
  \/ \E q \in Queries : GetRecentLogs(q)

SpecStore == InitStore /\ [][NextStore]_vars

\* The config store under its operations: config posts for both servers
\* around one message task.
StoreConfigs ==
  {c \in ConfigSpace :
     /\ c.warnMessage = "be nice"
     /\ ~c.enableLog /\ c.logChannelId = ""
     /\ ~c.enableKick /\ ~c.enableBan /\ c.banDuration = 0 /\ c.customCommand = ""
     /\ c.monitorAllChannels /\ c.monitoredChannels = {}}

NextConfig ==
  \/ \E c \in StoreConfigs : PostConfig(c)
  \/ \E m \in ExecMsgs, g \in Servers : MessageCreate(m, FALSE, g, "c1", "u1")
  \/ \E m \in ExecMsgs : Filter(m)
  \/ \E m \in ExecMsgs, resp \in StoreResponses : Classified(m, resp, LastStamp)
  \/ \E m \in ExecMsgs : Recorded(m, {})
  \/ \E m \in ExecMsgs, ok \in BOOLEAN : ActionReturn(m, ok)
  \/ \E m \in ExecMsgs, ok \in BOOLEAN : DeleteReturn(m, ok)

SpecConfig == Init /\ [][NextConfig]_vars

\* The dashboard summary over the store: entries and a config written at
\* startup, one config post for either server, one message task whose verdict
\* carries any score the service wrote, and the summary read in between.
StatsResponses == {r \in Responses : r.kind = "json" /\ r.isViolation}

NextStats ==
  \/ \E c \in StoreConfigs : PostConfig(c)
  \/ \E m \in ExecMsgs : MessageCreate(m, FALSE, "s1", "c1", "u1")
  \/ \E m \in ExecMsgs : Filter(m)
  \/ \E m \in ExecMsgs, resp \in StatsResponses : Classified(m, resp, LastStamp)
  \/ \E m \in ExecMsgs : Recorded(m, {})
  \/ \E m \in ExecMsgs, ok \in BOOLEAN : ActionReturn(m, ok)
  \/ \E m \in ExecMsgs, ok \in BOOLEAN : DeleteReturn(m, ok)
  \/ GetDashboardStats

SpecStats == InitStore /\ [][NextStats]_vars

\* Config upserts and config reads around one message task: the configs
\* posted differ in the server, the sensitivity and the warn action.
UpsertConfigs ==
  {[c EXCEPT !.sensitivity = v] : c \in StoreConfigs, v \in {"medium", "strict"}}

NextUpsert ==
  \/ \E c \in UpsertConfigs : PostConfig(c)
  \/ \E g \in Servers : GetConfig(g)
  \/ \E m \in ExecMsgs, g \in Servers : MessageCreate(m, FALSE, g, "c1", "u1")
  \/ \E m \in ExecMsgs : Filter(m)
  \/ \E m \in ExecMsgs, resp \in StoreResponses : Classified(m, resp, LastStamp)
  \/ \E m \in ExecMsgs : Recorded(m, {})
  \/ \E m \in ExecMsgs, ok \in BOOLEAN : ActionReturn(m, ok)
  \/ \E m \in ExecMsgs, ok \in BOOLEAN : DeleteReturn(m, ok)

SpecUpsert == Init /\ [][NextUpsert]_vars

\* Two messages of the same author on the same channel, handled under
\* configs of one server that differ in primaryAction and in the warn and ban
\* switches: the config stored at the start and one upsert.
PairConfigs ==
  {[c EXCEPT !.primaryAction = p, !.enableBan = b] :
     c \in PostedConfigs, p \in {"log", "ban"}, b \in BOOLEAN}

PairMsgs == {m \in Msgs : m <= 2}

InitPair ==
  /\ \E c \in PairConfigs :
       configs = [s \in Servers |-> IF s = c.serverId THEN Stored(c, 1) ELSE NoConfig]
  /\ uuidCount = 1
  /\ upserts = 1
  /\ logs = <<>>
  /\ tasks = [m \in Msgs |-> IdleTask]
  /\ members \in SUBSET Users
  /\ connectedClients = <<>>
  /\ readyState = [c \in Conns |-> 0]
  /\ sent = [c \in Conns |-> <<>>]
  /\ delivered = [c \in Conns |-> <<>>]
  /\ broadcasts = <<>>
  /\ response = NoResponse
  /\ botState = BotRunning
  /\ hook = HookIdle

NextPair ==
  \/ \E c \in PairConfigs : PostConfig(c)
  \/ \E m \in PairMsgs : MessageCreate(m, FALSE, "s1", "c1", "u1")
  \/ \E m \in PairMsgs : Filter(m)
  \/ \E m \in PairMsgs, resp \in PostedResponses : Classified(m, resp, LastStamp)
  \/ \E m \in PairMsgs : Recorded(m, {})
  \/ \E m \in PairMsgs, ok \in BOOLEAN : ActionReturn(m, ok)
  \/ \E m \in PairMsgs, ok \in BOOLEAN : DeleteReturn(m, ok)

SpecPair == InitPair /\ [][NextPair]_vars

\* discord-bot's lifecycle: startBot and stopBot calls in any interleaving,
\* from the module as loaded, and messages arriving in between.
InitBot ==
  /\ configs = [s \in Servers |-> NoConfig]
  /\ logs = <<>>
  /\ uuidCount = 0
  /\ upserts = 0
  /\ tasks = [m \in Msgs |-> IdleTask]
  /\ members = {}
  /\ connectedClients = <<>>
  /\ readyState = [c \in Conns |-> 0]
  /\ sent = [c \in Conns |-> <<>>]
  /\ delivered = [c \in Conns |-> <<>>]
  /\ broadcasts = <<>>
  /\ response = NoResponse
  /\ botState = BotNotStarted
  /\ hook = HookIdle

NextBot ==
  \/ StartBotCall
  \/ \E k \in 1..MaxCalls : StartBotConnected(k)
  \/ \E k \in 1..MaxCalls : StartBotFailed(k)
  \/ StopBotCall
  \/ \E k \in 1..MaxCalls : StopBotDone(k)
  \/ Inbound

SpecBot == InitBot /\ [][NextBot]_vars

\* The dashboard's hook: mounted once, its connections opening and closing,
\* its timer, and its unmounting.
NextHook ==
  \/ HookMount
  \/ \E i \in 1..MaxSockets : HookSocketOpen(i)
  \/ \E i \in 1..MaxSockets, f \in Frames : HookMessage(i, f)
  \/ \E i \in 1..MaxSockets : HookSocketClosing(i)
  \/ \E i \in 1..MaxSockets : HookSocketClose(i)
  \/ HookTimerFire
  \/ HookUnmount

SpecHook == Init /\ [][NextHook]_vars

\* The step a suspended task takes when the call it waits for returns or
\* throws.
TaskStep(m) ==
  \/ Filter(m)
  \/ \E resp \in Responses : Classified(m, resp, LastStamp)
  \/ Recorded(m, {})
  \/ \E ok \in BOOLEAN : ActionReturn(m, ok)
  \/ FetchedNothing(m)
  \/ \E ok \in BOOLEAN : DeleteReturn(m, ok)

\* SpecExec under the assumption that every call a task awaits (getConfig,
\* analyzeMessage, createLog, the platform calls, delete) returns or throws
\* in the end: the promise is settled and the event loop resumes the task.
SpecLive == InitExec /\ [][NextExec]_vars /\ \A m \in ExecMsgs : WF_vars(TaskStep(m))

\* ------------------------------------------------------------- properties
ActionNames == {"warn", "log", "kick", "ban", "custom"}

\* The entries and the published payloads that stem from message m.
EntriesOf(m) == {i \in 1..Len(logs) : logs[i].messageContent = m}
BroadcastsOf(m) == {i \in 1..Len(broadcasts) : broadcasts[i].data.messageContent = m}

\* The enabling condition of an action, as the config states it.
Wanted(cfg, a) ==
  \/ a = "warn" /\ cfg.enableWarn /\ cfg.warnMessage # ""
  \/ a = "log" /\ cfg.enableLog /\ cfg.logChannelId # ""
  \/ a = "kick" /\ cfg.enableKick
  \/ a = "ban" /\ cfg.enableBan
  \/ a = "custom" /\ cfg.customCommand # ""

\* The labels of the actions in S, in the order warned, logged, kicked,
\* banned, custom.
LabelsOf(S) ==
  (IF "warn" \in S THEN <<"warned">> ELSE <<>>) \o
  (IF "log" \in S THEN <<"logged">> ELSE <<>>) \o
  (IF "kick" \in S THEN <<"kicked">> ELSE <<>>) \o
  (IF "ban" \in S THEN <<"banned">> ELSE <<>>) \o
  (IF "custom" \in S THEN <<"custom">> ELSE <<>>)

RECURSIVE CommaList(_)
CommaList(seq) ==
  IF seq = <<>> THEN ""
  ELSE IF Len(seq) = 1 THEN Head(seq)
  ELSE Head(seq) \o ", " \o CommaList(Tail(seq))

\* The text a finalized entry holds when exactly the actions of S succeeded.
FinalText(S) ==
  IF S \cap ActionNames = {} THEN "logged" ELSE CommaList(LabelsOf(S \cap ActionNames))

\* Whether the text of an entry contains the label of action a.
HasLabel(text, a) ==
  \E S \in SUBSET ActionNames : a \in S /\ text = CommaList(LabelsOf(S))

\* A task past its finalize step.
Finalized(t) == t.analysis.isViolation /\ t.pc \in {"delete", "done"}

\* C1: a violating message has exactly one audit entry, appended before any
\* enforcement action or deletion is attempted, and the entry's actionTaken
\* is the sentinel "logged" for as long as the task has not passed its last
\* action: it differs from the sentinel only once the task is at its delete
\* step or done.
C1_OneEntryBeforeActions ==
  \A m \in Msgs :
    LET t == tasks[m]
    IN /\ Cardinality(EntriesOf(m)) <= 1
       /\ t.analysis.isViolation => EntriesOf(m) = {t.log}
       /\ (t.attempted # {} \/ t.deletes > 0) => EntriesOf(m) = {t.log}
       /\ \A i \in EntriesOf(m) :
            /\ t.pc \in {"record"} \cup ActionPcs => logs[i].actionTaken = "logged"
            /\ logs[i].actionTaken # "logged" => t.pc \in {"delete", "done"}

\* C1 witness: a violation with the warn action done and the ban call in
\* flight, its entry still holding the sentinel.
C1_Witness ==
  \E m \in Msgs :
    /\ tasks[m].pc = "ban"
    /\ tasks[m].actionsTaken = <<"warned", "logged">>
    /\ logs[tasks[m].log].actionTaken = "logged"

\* C2: a message whose resolved config is absent, or whose channel is not
\* monitored (monitorAllChannels false and the channel not listed), causes
\* no classification call, no audit entry, no publication, no enforcement
\* action and no deletion.
C2_UnmonitoredUntouched ==
  \A m \in Msgs :
    LET t == tasks[m]
    IN (/\ t.pc \notin {"idle", "config"}
        /\ ~t.bot
        /\ \/ t.config = NoConfig
           \/ ~t.config.monitorAllChannels /\ t.channelId \notin t.config.monitoredChannels)
       => /\ t.pc = "done"
          /\ t.calls = 0
          /\ EntriesOf(m) = {}
          /\ BroadcastsOf(m) = {}
          /\ t.attempted = {} /\ t.succeeded = {} /\ t.deletes = 0

\* C2 witness: a message discarded on a configured server because its
\* channel is not in the monitored list.
C2_Witness ==
  \E m \in Msgs :
    /\ tasks[m].pc = "done" /\ ~tasks[m].bot
    /\ tasks[m].config # NoConfig
    /\ ~tasks[m].config.monitorAllChannels
    /\ tasks[m].config.monitoredChannels # {}
    /\ tasks[m].channelId \notin tasks[m].config.monitoredChannels

\* C3: a message whose verdict is not a violation gets no audit entry, no
\* publication, no enforcement action and no deletion.
C3_NoViolationNoEffect ==
  \A m \in Msgs :
    LET t == tasks[m]
    IN ~t.analysis.isViolation
       => /\ EntriesOf(m) = {}
          /\ BroadcastsOf(m) = {}
          /\ t.attempted = {} /\ t.succeeded = {} /\ t.deletes = 0
          /\ t.pc \in {"idle", "config", "classify", "done"}

\* C3 witness: a message classified by a well-formed response as no
\* violation, with a positive confidence score.
C3_Witness ==
  \E m \in Msgs :
    /\ tasks[m].pc = "done" /\ tasks[m].calls = 1
    /\ tasks[m].failed = {}
    /\ ~tasks[m].analysis.isViolation
    /\ tasks[m].analysis.confidenceScore > 0

\* C4: when the classification request fails (error, timeout, unparsable
\* body) the verdict is isViolation=false, violationType="none",
\* confidenceScore=0, the handler goes on normally and ends without an
\* audit entry, an enforcement action or a deletion.
C4_FailOpen ==
  \A m \in Msgs :
    LET t == tasks[m]
    IN "classify" \in t.failed
       => /\ t.analysis.isViolation = FALSE
          /\ t.analysis.violationType = "none"
          /\ t.analysis.confidenceScore = 0
          /\ t.pc = "done"
          /\ EntriesOf(m) = {}
          /\ t.attempted = {} /\ t.succeeded = {} /\ t.deletes = 0

\* C4 witness: a task whose classification request failed.
C4_Witness ==
  \E m \in Msgs : "classify" \in tasks[m].failed /\ tasks[m].calls = 1

\* C5: no failed call ends the handler early; once a violation is past its
\* actions, every action whose enabling condition holds was attempted
\* whichever calls failed (kick and ban excepted when the author was
\* missing from the member cache), every action that succeeded has its
\* label in the entry, and the delete step was reached.
C5_ActionIndependence ==
  \A m \in Msgs :
    LET t == tasks[m]
    IN /\ t.pc # "rejected"
       /\ t.noMember \subseteq {"kick", "ban"}
       /\ Finalized(t)
          => /\ \A a \in ActionNames :
                  Wanted(t.config, a) => a \in t.attempted \cup t.noMember
             /\ \A a \in t.succeeded \cap ActionNames :
                  HasLabel(logs[t.log].actionTaken, a)
             /\ t.deletes = 1

\* C5 witness: warn and kick failed, and log-to-channel, ban, the custom
\* command and the deletion were still carried out.
C5_Witness ==
  \E m \in Msgs :
    /\ tasks[m].pc = "done"
    /\ tasks[m].failed = {"warn", "kick"}
    /\ tasks[m].succeeded = {"log", "ban", "custom", "delete"}
    /\ logs[tasks[m].log].actionTaken = "logged, banned, custom"

\* C6: after the finalize step the entry's actionTaken is the labels of the
\* actions that succeeded, joined with ", " in the order warned, logged,
\* kicked, banned, custom; when none succeeded it is the sentinel "logged".
C6_FinalizedText ==
  \A m \in Msgs :
    LET t == tasks[m]
    IN Finalized(t)
       => /\ EntriesOf(m) = {t.log}
          /\ logs[t.log].actionTaken = FinalText(t.succeeded)

\* C6 witness: all five actions succeeded.
C6_Witness ==
  \E m \in Msgs :
    /\ Finalized(tasks[m])
    /\ ActionNames \subseteq tasks[m].succeeded
    /\ logs[tasks[m].log].actionTaken = "warned, logged, kicked, banned, custom"

\* C7 as claimed: every label in a finalized entry's actionTaken belongs to
\* an action that succeeded for the message.
C7_LabelsAreSuccesses ==
  \A m \in Msgs :
    LET t == tasks[m]
    IN Finalized(t)
       => \A a \in ActionNames :
            HasLabel(logs[t.log].actionTaken, a) => a \in t.succeeded

\* C7 amended: every label in a finalized entry's actionTaken belongs to an
\* action that succeeded for the message, except that the entry of a
\* violation for which no action succeeded holds the sentinel "logged".
C7_LabelsAreSuccessesOrSentinel ==
  \A m \in Msgs :
    LET t == tasks[m]
    IN Finalized(t)
       => \A a \in ActionNames :
            HasLabel(logs[t.log].actionTaken, a)
            => \/ a \in t.succeeded /\ a \in t.attempted
               \/ /\ a = "log"
                  /\ t.succeeded \cap ActionNames = {}
                  /\ logs[t.log].actionTaken = "logged"

\* C7 witness: a finalized entry that holds "logged" although the post to
\* the log channel was attempted and failed, next to no other success.
C7_Witness ==
  \E m \in Msgs :
    /\ Finalized(tasks[m])
    /\ "log" \in tasks[m].failed
    /\ "warn" \in tasks[m].failed
    /\ logs[tasks[m].log].actionTaken = "logged"

\* C8: a violation is published exactly once, in the step that follows the
\* append and issues the first action call, with the entry as appended
\* (actionTaken "logged"); nothing is published before, and nothing again
\* when the entry is finalized.
C8_PublishedOnce ==
  /\ \A m \in Msgs :
       LET t == tasks[m]
           B == BroadcastsOf(m)
       IN /\ Cardinality(B) <= 1
          /\ t.pc \in {"idle", "config", "classify", "record"} => B = {}
          /\ (t.analysis.isViolation /\ t.pc # "record") => Cardinality(B) = 1
          /\ (t.attempted # {} \/ t.deletes > 0) => B # {}
          /\ \A i \in B :
               /\ EntriesOf(m) = {t.log}
               /\ broadcasts[i].type = "new_log"
               /\ broadcasts[i].data = [logs[t.log] EXCEPT !.actionTaken = "logged"]
  /\ \A c \in Conns : \A k \in 1..Len(delivered[c]) :
       /\ delivered[c][k].data.actionTaken = "logged"
       /\ \A j \in 1..Len(delivered[c]) : delivered[c][j] = delivered[c][k] => j = k

\* C8 witness: a finalized violation whose entry now reads "warned", its
\* single notification delivered to an observer.
C8_Witness ==
  \E m \in Msgs :
    /\ tasks[m].pc = "done"
    /\ EntriesOf(m) # {}
    /\ logs[tasks[m].log].actionTaken = "warned"
    /\ Cardinality(BroadcastsOf(m)) = 1
    /\ \E c \in Conns : \E k \in 1..Len(delivered[c]) :
         delivered[c][k].data.messageContent = m

\* C9: the deletion of a violating message is attempted exactly once, after
\* the actions and the finalize step, whatever the actions' outcomes; a
\* failed deletion leaves the entry and its finalized actionTaken as they
\* were and the handler ends normally.
C9_DeleteOnceLast ==
  \A m \in Msgs :
    LET t == tasks[m]
    IN /\ t.deletes <= 1
       /\ (t.analysis.isViolation /\ t.pc = "done") => t.deletes = 1
       /\ t.deletes = 1
          => /\ t.pc \in {"delete", "done"}
             /\ EntriesOf(m) = {t.log}
             /\ logs[t.log].actionTaken = FinalText(t.succeeded)
       /\ "delete" \in t.failed => t.pc = "done"
       /\ "delete" \in t.succeeded => t.pc = "done"

\* C9 witness: no action succeeded and the deletion, attempted all the
\* same, failed.
C9_Witness ==
  \E m \in Msgs :
    /\ tasks[m].pc = "done"
    /\ tasks[m].failed = {"warn", "ban", "delete"}
    /\ tasks[m].succeeded = {}
    /\ logs[tasks[m].log].actionTaken = "logged"

\* C10: no failure of a step escapes a handler invocation (none ends
\* rejected), and whatever happened to earlier messages the handler takes
\* the next message event.
C10_FailuresContained ==
  \A m \in Msgs :
    /\ tasks[m].pc # "rejected"
    /\ (tasks[m].pc = "idle" /\ \A k \in Msgs : k < m => tasks[k].pc # "idle")
       => ENABLED MessageCreate(m, FALSE, "s1", "c1", "u1")

\* C10 witness: the first message's warn and delete calls failed, and a
\* later message went through the whole protocol, deletion included.
C10_Witness ==
  \E m, n \in Msgs :
    /\ m < n
    /\ tasks[m].pc = "done" /\ tasks[m].failed = {"warn", "delete"}
    /\ tasks[n].pc = "done" /\ tasks[n].failed = {}
    /\ tasks[n].succeeded = {"warn", "delete"}
    /\ logs[tasks[n].log].actionTaken = "warned"

\* C11: while a task is suspended in its classification call, every other
\* task can take its next step, whichever step that is: the event of a
\* message not yet handed over can fire, and a task waiting for its config,
\* its verdict, its append, an action call or its delete call can go on.
C11_SuspensionDoesNotBlock ==
  \A m, n \in Msgs :
    (m # n /\ tasks[m].pc = "classify")
    => LET pc == tasks[n].pc
       IN /\ (pc = "idle" /\ \A k \in Msgs : k < n => tasks[k].pc # "idle")
             => ENABLED MessageCreate(n, FALSE, "s1", "c1", "u1")
          /\ pc = "config" => ENABLED Filter(n)
          /\ pc = "classify"
             => ENABLED (\E r \in PostedResponses : Classified(n, r, LastStamp))
          /\ pc = "record" => ENABLED Recorded(n, {})
          /\ pc \in ActionPcs => ENABLED ActionReturn(n, TRUE)
          /\ pc = "delete" => ENABLED DeleteReturn(n, TRUE)

\* C11 witness: the first message is still suspended in its classification
\* call and a later message has gone through all its steps, warn and
\* deletion included.
C11_Witness ==
  \E m, n \in Msgs :
    /\ m < n
    /\ tasks[m].pc = "classify"
    /\ tasks[n].pc = "done"
    /\ tasks[n].succeeded = {"warn", "delete"}
    /\ logs[tasks[n].log].actionTaken = "warned"

\* C12: the entries have distinct ids, there is exactly one entry per
\* violating message (no append is lost), and every entry holds the data of
\* its own message alone: that task's identifiers and verdict, and the
\* sentinel until that task's own finalize step, the task's own result
\* afterwards.
C12_IndependentEntries ==
  /\ \A i, j \in 1..Len(logs) : logs[i].id = logs[j].id => i = j
  /\ Len(logs) = Cardinality({m \in Msgs : tasks[m].analysis.isViolation})
  /\ \A m \in Msgs :
       LET t == tasks[m]
       IN t.analysis.isViolation
          => /\ EntriesOf(m) = {t.log}
             /\ logs[t.log].serverId = t.guildId
             /\ logs[t.log].userId = t.author
             /\ logs[t.log].channelId = t.channelId
             /\ logs[t.log].violationType = t.analysis.violationType
             /\ logs[t.log].confidenceScore = t.analysis.confidenceScore
             /\ logs[t.log].aiReasoning = t.analysis.reasoning
             /\ logs[t.log].actionTaken =
                  IF Finalized(t) THEN FinalText(t.succeeded) ELSE "logged"

\* C12 witness: two violations in flight at once, the later message's entry
\* appended first and already finalized as "warned" while the earlier
\* message's task still waits for its warn call.
C12_Witness ==
  \E m, n \in Msgs :
    /\ m < n
    /\ tasks[n].log = 1 /\ tasks[m].log = 2
    /\ tasks[n].pc = "done" /\ logs[1].actionTaken = "warned"
    /\ tasks[m].pc = "warn" /\ logs[2].actionTaken = "logged"

\* The sockets the hub holds.
Registered(clients) == {clients[i] : i \in 1..Len(clients)}

\* C13: a step that publishes a notification calls send with it exactly
\* once for every socket that is registered and OPEN when the step starts
\* and for no other socket; a step that publishes nothing sends nothing and
\* delivers nothing, so a socket that was not OPEN at publish time, or that
\* connected afterwards, never gets the notification.
C13_SentOnceToOpen ==
  [][IF broadcasts' # broadcasts
     THEN /\ Len(broadcasts') = Len(broadcasts) + 1
          /\ \A c \in Conns :
               LET p == broadcasts'[Len(broadcasts')]
               IN /\ sent'[c] = IF c \in Registered(connectedClients) /\ readyState[c] = 1
                                THEN Append(sent[c], p) ELSE sent[c]
                  /\ delivered'[c] \in {delivered[c]} \cup
                       (IF sent'[c] # sent[c] THEN {Append(delivered[c], p)} ELSE {})
     ELSE sent' = sent /\ delivered' = delivered]_vars

\* C13 witness: one notification was published; an OPEN socket was sent it
\* once, and a socket that is registered and CLOSING was sent nothing.
C13_Witness ==
  /\ Len(broadcasts) = 1
  /\ \E c, d \in Conns :
       /\ c # d
       /\ sent[c] = <<broadcasts[1]>>
       /\ d \in Registered(connectedClients) /\ readyState[d] = 2 /\ sent[d] = <<>>

\* C14: the hub's set holds, without repetition, exactly the sockets that
\* connected and whose close event has not fired (OPEN or CLOSING); a
\* socket whose close event has fired stays out of the set and no later
\* publish sends to it.
C14_LiveConnectionsOnly ==
  [][/\ Registered(connectedClients) = {c \in Conns : readyState[c] \in {1, 2}}
     /\ Registered(connectedClients') = {c \in Conns : readyState'[c] \in {1, 2}}
     /\ Len(connectedClients') = Cardinality(Registered(connectedClients'))
     /\ \A c \in Conns :
          readyState[c] = 3
          => /\ readyState'[c] = 3
             /\ c \notin Registered(connectedClients')
             /\ sent'[c] = sent[c]]_vars

\* C14 witness: a socket connected and closed, and the notification
\* published to the socket that is still connected was not sent to it.
C14_Witness ==
  \E c, d \in Conns :
    /\ readyState[c] = 3 /\ c \notin Registered(connectedClients) /\ sent[c] = <<>>
    /\ readyState[d] = 1 /\ Registered(connectedClients) = {d}
    /\ Len(sent[d]) = 1

\* Whether the store holds a config for the task's server that monitors the
\* task's channel.
OnMonitoredChannel(t) ==
  LET cfg == getConfig(t.guildId)
  IN /\ cfg # NoConfig
     /\ cfg.monitorAllChannels \/ t.channelId \in cfg.monitoredChannels

\* C15 as claimed: a message enters the protocol if and only if its author
\* is not the bot's own account: past the filter, every message of another
\* author on a monitored channel of a configured server has had exactly one
\* classification call, and a message of the bot's own account has none.
C15_AllButSelfEnter ==
  \A m \in Msgs :
    LET t == tasks[m]
    IN t.pc \notin {"idle", "config"}
       => /\ (t.author # Self /\ OnMonitoredChannel(t)) => t.calls = 1
          /\ t.author = Self => t.calls = 0

\* C15 amended: a message enters the protocol if and only if its author is
\* not a bot account: past the filter, every message of a non-bot author on
\* a monitored channel of a configured server has had exactly one
\* classification call, and a message of any bot account, the bot's own
\* included, has none, no entry, no action and no deletion.
C15_NonBotsEnter ==
  \A m \in Msgs :
    LET t == tasks[m]
    IN /\ t.calls <= 1
       /\ t.pc \notin {"idle", "config"}
          => /\ (~t.bot /\ OnMonitoredChannel(t)) => t.calls = 1
             /\ t.bot => /\ t.calls = 0 /\ t.pc = "done"
                         /\ EntriesOf(m) = {} /\ t.attempted = {} /\ t.deletes = 0
             /\ t.author = Self => t.bot

\* C15 witness: a message of another bot on a monitored channel of a
\* configured server was dropped without a classification call.
C15_Witness ==
  \E m \in Msgs :
    /\ tasks[m].pc = "done"
    /\ tasks[m].author \in Bots \ {Self}
    /\ OnMonitoredChannel(tasks[m])
    /\ tasks[m].calls = 0

\* The violation types the prompt and the schema name.
ViolationTypes ==
  {"toxicity", "harassment", "spam", "inappropriate", "hate_speech", "none"}

\* C16: every verdict analyzeMessage returned has a confidenceScore in
\* 0..100 and a violationType among the six named ones, whatever the
\* service answered, and so has every audit entry.
C16_VerdictInRange ==
  /\ \A m \in Msgs :
       LET t == tasks[m]
       IN (t.calls = 1 /\ t.pc # "classify")
          => /\ t.analysis.confidenceScore \in 0..100
             /\ t.analysis.violationType \in ViolationTypes
  /\ \A i \in 1..Len(logs) :
       /\ logs[i].confidenceScore \in 0..100
       /\ logs[i].violationType \in ViolationTypes

\* The hours a ban issued with these options lasts, 0 for a permanent one:
\* the platform lifts no ban by itself and the handler schedules no unban,
\* so a ban ends only if its options say so.
BanScope(options) ==
  IF "duration" \in DOMAIN options THEN options.duration ELSE 0

\* C17: a ban that succeeded is scoped to the config's ban duration when
\* one is configured, and is permanent when none is.
C17_BanScoped ==
  \A m \in Msgs :
    LET t == tasks[m]
    IN "ban" \in t.succeeded => BanScope(t.banOptions) = t.config.banDuration

\* C18: no step removes an entry or changes an entry's id, timestamp,
\* identifiers, messageContent, violationType, confidenceScore or reasoning;
\* an entry's actionTaken changes only in the finalize step of the task that
\* appended it, which that task takes once, on its way to the delete call.
C18_AppendOnly ==
  [][/\ Len(logs') >= Len(logs)
     /\ \A i \in 1..Len(logs) :
          /\ [logs'[i] EXCEPT !.actionTaken = logs[i].actionTaken] = logs[i]
          /\ logs'[i].actionTaken # logs[i].actionTaken
             => /\ logs[i].actionTaken = "logged"
                /\ \E m \in Msgs :
                     /\ tasks[m].log = i
                     /\ tasks[m].pc \in ActionPcs \cup {"record"}
                     /\ tasks'[m].pc = "delete"]_vars

\* C18 witness: next to stored entries a task appended an entry, finalized
\* it as "warned" and ended, and GET /api/logs then returned all entries.
C18_Witness ==
  \E m \in Msgs :
    /\ tasks[m].pc = "done"
    /\ tasks[m].log > 1
    /\ logs[tasks[m].log].actionTaken = "warned"
    /\ response.route = "logs"
    /\ Len(response.body) = Len(logs)
    /\ \E i \in 1..Len(response.body) : response.body[i] = logs[tasks[m].log]

\* The first n elements of a list, all of them if it has fewer.
FirstN(list, n) == [i \in 1..(IF n < Len(list) THEN n ELSE Len(list)) |-> list[i]]

\* C19: in every state getLogs() holds the stored entries, each once, by
\* timestamp descending, getRecentLogs(n) is the first min(n, count) of them
\* for every n >= 0, and getRecentLogs(0) is empty; a step that serves
\* either read leaves the store as it was and answers with getLogs(), or
\* with a prefix of it.
C19_RecentIsPrefix ==
  /\ [](/\ Len(getLogs) = Len(logs)
        /\ \A i \in 1..Len(logs) : \E j \in 1..Len(getLogs) : getLogs[j] = logs[i]
        /\ \A i, j \in 1..Len(getLogs) :
             i < j => getLogs[i].timestamp >= getLogs[j].timestamp
        /\ \A n \in 0..(MaxLimit + 2) : getRecentLogs(n) = FirstN(getLogs, n)
        /\ getRecentLogs(0) = <<>>)
  /\ [][(response' # response /\ response'.route \in {"logs", "recent"})
        => /\ UNCHANGED <<storeVars, tasks>>
           /\ response'.route = "logs" => response'.body = getLogs
           /\ response'.route = "recent"
              => \E n \in 0..Len(logs) : response'.body = FirstN(getLogs, n)]_vars

\* C19 witness: the store holds at least three entries, the newest appended
\* by a task, and GET /api/logs/recent with limit 2 returned that entry
\* first, ahead of an older one.
C19_Witness ==
  \E m \in Msgs :
    /\ tasks[m].log = Len(logs) /\ Len(logs) >= 3
    /\ response.route = "recent"
    /\ Len(response.body) = 2
    /\ response.body[1] = logs[Len(logs)]
    /\ response.body[1].timestamp > response.body[2].timestamp

\* The server ids that have a config (this.configs.size of them).
ConfiguredServers(cs) == {s \in Servers : cs[s] # NoConfig}

\* C20: the store holds at most one config per server id, filed under that
\* id; an upsert for a server id that has a config replaces it by the
\* posted values, keeps its id and leaves the number of configs and every
\* other server's config as they were; an upsert for a new server id adds
\* one config with a new id; no other step changes the configs.
C20_OneConfigPerServer ==
  [][/\ \A s \in ConfiguredServers(configs) : configs[s].serverId = s
     /\ IF upserts' # upserts
        THEN \E s \in Servers :
               /\ \A o \in Servers \ {s} : configs'[o] = configs[o]
               /\ configs'[s] # NoConfig /\ configs'[s].serverId = s
               /\ configs'[s] = response'.body
               /\ IF s \in ConfiguredServers(configs)
                  THEN /\ configs'[s].id = configs[s].id
                       /\ ConfiguredServers(configs') = ConfiguredServers(configs)
                  ELSE /\ \A o \in ConfiguredServers(configs) :
                            configs'[s].id # configs[o].id
                       /\ ConfiguredServers(configs') = ConfiguredServers(configs) \cup {s}
        ELSE configs' = configs]_vars

\* C20 witness: two upserts for the same server left one config, the second
\* upsert's values under the first one's id.
C20_Witness ==
  /\ upserts = 2
  /\ ConfiguredServers(configs) = {"s1"}
  /\ configs["s1"].id = 1
  /\ configs["s1"].enableWarn
  /\ response.route = "config" /\ response.body = configs["s1"]

\* The sum of the entries' scores, counted entry by entry.
ScoreTotal(arr) ==
  LET F[i \in 0..Len(arr)] == IF i = 0 THEN 0 ELSE F[i - 1] + arr[i].confidenceScore
  IN F[Len(arr)]

\* C21: the dashboard summary served by a read has totalViolations and
\* actionsTaken equal to the number of audit entries, serversMonitored equal
\* to the number of distinct configured server ids, and detectionAccuracy
\* equal to the mean of confidenceScore over all entries rounded to the
\* nearest integer (halves up), which is 0 when there are no entries; the
\* read changes nothing in the store.
C21_DashboardSummary ==
  [][response'.route = "stats" /\ response' # response =>
       LET b == response'.body
           n == Len(logs)
           total == ScoreTotal(logs)
       IN /\ b.totalViolations = n /\ b.actionsTaken = n
          /\ b.serversMonitored = Cardinality(ConfiguredServers(configs))
          /\ n = 0 => b.detectionAccuracy = 0
          /\ n > 0 => /\ 2 * n * b.detectionAccuracy <= 2 * total + n
                      /\ 2 * total + n < 2 * n * (b.detectionAccuracy + 1)
          /\ UNCHANGED storeVars]_vars

\* C21 witness: a summary over two configured servers and entries whose
\* mean lies half-way or more above an integer, rounded up.
C21_Witness ==
  /\ response.route = "stats"
  /\ response.body.serversMonitored = 2
  /\ response.body.totalViolations = Len(logs) /\ Len(logs) > 1
  /\ response.body.detectionAccuracy * Len(logs) > ScoreTotal(logs)

\* C22 (as claimed): for every violation whose task is past its last action,
\* an enforcement action was attempted if and only if its enabling condition
\* holds in the config; nothing else skips an enabled action.
C22_AttemptedIffEnabled ==
  \A m \in Msgs :
    LET t == tasks[m]
    IN Finalized(t) => \A a \in ActionNames : a \in t.attempted <=> Wanted(t.config, a)

\* C22 (amended): an action is attempted only if its enabling condition
\* holds in the config, and kick and ban only while the guild's member cache
\* holds the author; an enabled action is passed over only if it is kick or
\* ban and the cache does not hold the author when the task reaches it; a
\* task past its last action has attempted or passed over exactly the
\* enabled actions.
C22_AttemptedIffEnabledAndMember ==
  /\ [](\A m \in Msgs :
          LET t == tasks[m]
          IN /\ t.attempted \cap t.noMember = {}
             /\ Finalized(t) =>
                  t.attempted \cup t.noMember = {a \in ActionNames : Wanted(t.config, a)})
  /\ [][\A m \in Msgs :
          LET t == tasks[m]
              u == tasks'[m]
          IN /\ \A a \in u.attempted \ t.attempted :
                  /\ Wanted(u.config, a)
                  /\ a \in {"kick", "ban"} => u.author \in members
             /\ \A a \in u.noMember \ t.noMember :
                  /\ Wanted(u.config, a)
                  /\ a \in {"kick", "ban"} /\ u.author \notin members]_vars

\* C22 witness: a violation whose kick was attempted while the cache held
\* the author and whose enabled ban was passed over, the author having left
\* the cache in between.
C22_Witness ==
  \E m \in Msgs :
    /\ Finalized(tasks[m])
    /\ tasks[m].config.enableKick /\ tasks[m].config.enableBan
    /\ "kick" \in tasks[m].attempted
    /\ "ban" \in tasks[m].noMember

\* The sockets whose send of the step failed: sent to, nothing delivered.
FailedSends == {c \in Conns : sent'[c] # sent[c] /\ delivered'[c] = delivered[c]}

\* C24: in a publishing step where the send to some observer connection
\* fails, every other registered OPEN connection is still sent the
\* notification, and the publishing task goes on: it leaves the step with
\* the call of its first action issued or, having finalized, with the
\* deletion issued; a task whose notification failed to reach an observer
\* never ends rejected, and once it is past its last action its entry is
\* finalized and its deletion was attempted once.
C24_FailedSendContained ==
  /\ [][(broadcasts' # broadcasts /\ FailedSends # {}) =>
          /\ \A c \in Registered(connectedClients) :
               readyState[c] = 1 => sent'[c] = Append(sent[c], broadcasts'[Len(broadcasts')])
          /\ \E m \in Msgs :
               /\ tasks[m].pc = "record"
               /\ tasks'[m].pc \in ActionPcs \cup {"delete"}
               /\ tasks'[m].pc = "delete" =>
                    /\ tasks'[m].deletes = 1
                    /\ logs'[tasks'[m].log].actionTaken = FinalText(tasks'[m].succeeded)]_vars
  /\ [](\A m \in Msgs :
          LET t == tasks[m]
          IN (\E c \in Conns : \E i \in BroadcastsOf(m) :
                /\ \E k \in 1..Len(sent[c]) : sent[c][k] = broadcasts[i]
                /\ \A k \in 1..Len(delivered[c]) : delivered[c][k] # broadcasts[i])
             => /\ t.pc \in ActionPcs \cup {"delete", "done"}
                /\ t.pc \in {"delete", "done"} =>
                     /\ t.deletes = 1
                     /\ logs[t.log].actionTaken = FinalText(t.succeeded))

\* C24 witness: the notification of a violation was sent to two OPEN
\* observers, the first send failed and the second was delivered, and the
\* task has warned, finalized and deleted.
C24_Witness ==
  \E m \in Msgs :
    /\ tasks[m].pc = "done" /\ tasks[m].deletes = 1
    /\ "delete" \in tasks[m].succeeded
    /\ logs[tasks[m].log].actionTaken = "warned"
    /\ Len(connectedClients) = 2
    /\ sent[connectedClients[1]] = <<broadcasts[1]>>
    /\ delivered[connectedClients[1]] = <<>>
    /\ delivered[connectedClients[2]] = <<broadcasts[1]>>

\* The entries in the reverse of their order of appending.
NewestFirst(arr) == [i \in 1..Len(arr) |-> arr[Len(arr) + 1 - i]]

\* C27: a read of all entries lists them newest first by order of
\* appending, an entry appended later never behind one appended earlier,
\* equal timestamps included, and a read of the recent entries returns the
\* n entries appended last, newest first.
C27_LaterAppendedFirst ==
  [][(response' # response /\ response'.route \in {"logs", "recent"}) =>
       /\ response'.route = "logs" => response'.body = NewestFirst(logs)
       /\ response'.route = "recent" =>
            \E n \in 0..Len(logs) : response'.body = FirstN(NewestFirst(logs), n)]_vars

\* C29: a task takes the config the store holds for its server when the
\* event is handled and keeps it to its end: no later step, config upsert
\* or config read included, changes the config the task holds or the
\* sensitivity it passed to the classification, and the task attempts the
\* actions that config enables and no others, whatever the store holds by
\* then.  A config read leaves the store and the tasks as they were and
\* answers with the defaults for a server that has no config; only an
\* upsert changes the configs, so a task that found no config for its
\* server ends without a classification call.
C29_ConfigReadOnce ==
  /\ [](\A m \in Msgs :
          LET t == tasks[m]
          IN /\ t.calls > 0 => t.config # NoConfig /\ t.sensitivity = t.config.sensitivity
             /\ t.attempted # {} => t.config # NoConfig
             /\ t.config # NoConfig =>
                  /\ t.attempted \subseteq {a \in ActionNames : Wanted(t.config, a)}
                  /\ Finalized(t) =>
                       t.attempted = {a \in ActionNames : Wanted(t.config, a)}
             /\ (t.pc \notin {"idle", "config"} /\ t.config = NoConfig) =>
                  t.pc = "done" /\ t.calls = 0 /\ EntriesOf(m) = {})
  /\ [][/\ \A m \in Msgs :
           /\ (tasks[m].pc = "idle" /\ tasks'[m].pc # "idle") =>
                tasks'[m].config = configs[tasks'[m].guildId]
           /\ tasks[m].pc # "idle" => tasks'[m].config = tasks[m].config
           /\ tasks[m].calls > 0 => tasks'[m].sensitivity = tasks[m].sensitivity
        /\ configs' # configs => upserts' = upserts + 1
        /\ (response' # response /\ response'.route = "configRead") =>
             /\ UNCHANGED <<storeVars, tasks>>
             /\ \E g \in Servers :
                  response'.body = IF configs[g] = NoConfig
                                   THEN DefaultConfig(g) ELSE configs[g]]_vars

\* C29 witness: a task read a config with sensitivity medium and the warn
\* action enabled; while it was suspended an upsert made the server's config
\* strict with the warn action disabled; the task classified with medium,
\* warned and is done.
C29_Witness ==
  \E m \in Msgs :
    LET t == tasks[m]
    IN /\ t.pc = "done" /\ t.attempted = {"warn"}
       /\ t.sensitivity = "medium" /\ t.config.enableWarn
       /\ configs[t.guildId].sensitivity = "strict"
       /\ ~configs[t.guildId].enableWarn

\* C28: the text sent by the custom-command action is the configured
\* command with every @user replaced by the mention of the message's author
\* and every @channel replaced by the mention of the message's channel; no
\* placeholder of the configured command remains in it.
C28_AllPlaceholdersReplaced ==
  \A m \in Msgs :
    LET t == tasks[m]
        cmd == Tokens(t.config.customCommand)
    IN "custom" \in t.attempted =>
         /\ Len(t.commandText) = Len(cmd)
         /\ \A i \in 1..Len(cmd) :
              t.commandText[i] =
                IF cmd[i] = "@user" THEN "<@" \o t.author \o ">"
                ELSE IF cmd[i] = "@channel" THEN "<#" \o t.channelId \o ">"
                ELSE cmd[i]
         /\ \A i \in 1..Len(t.commandText) : t.commandText[i] \notin {"@user", "@channel"}

\* Two configs that differ at most in primaryAction (and in nothing else).
SameButPrimary(c, d) ==
  /\ c # NoConfig /\ d # NoConfig
  /\ [c EXCEPT !.primaryAction = ""] = [d EXCEPT !.primaryAction = ""]

\* What an entry or a payload says, apart from the entry's id, its
\* timestamp and the message's own content.
Contents(e) == [e EXCEPT !.id = 0, !.timestamp = 0, !.messageContent = 0]

\* C23: two tasks for the same message (author, channel, server) whose
\* configs differ only in primaryAction make the same classification call
\* (one or none, with the same sensitivity); if moreover their verdicts are
\* the same and the platform answered alike to the calls both made, they
\* attempt the same actions with the same arguments, and their audit
\* entries and notifications have the same contents.
C23_PrimaryActionIgnored ==
  \A m, k \in Msgs :
    LET t == tasks[m]
        u == tasks[k]
    IN (/\ t.pc = "done" /\ u.pc = "done"
        /\ SameButPrimary(t.config, u.config)
        /\ t.author = u.author /\ t.channelId = u.channelId /\ t.guildId = u.guildId)
       => /\ t.calls = u.calls /\ t.sensitivity = u.sensitivity
          /\ (/\ t.analysis = u.analysis
              /\ \A a \in (t.attempted \cap u.attempted) \cup {"delete"} :
                   /\ a \in t.succeeded <=> a \in u.succeeded
                   /\ a \in t.failed <=> a \in u.failed)
             => /\ t.attempted = u.attempted /\ t.noMember = u.noMember
                /\ t.succeeded = u.succeeded
                /\ t.banOptions = u.banOptions /\ t.commandText = u.commandText
                /\ t.deletes = u.deletes
                /\ (t.log = 0) = (u.log = 0)
                /\ t.log # 0 =>
                     /\ Contents(logs[t.log]) = Contents(logs[u.log])
                     /\ \A i \in BroadcastsOf(m) : \A j \in BroadcastsOf(k) :
                          Contents(broadcasts[i].data) = Contents(broadcasts[j].data)

\* C23 witness: two violations handled to the end under configs that differ
\* in primaryAction alone, both warned and banned.
C23_Witness ==
  \E m, k \in Msgs :
    /\ tasks[m].pc = "done" /\ tasks[k].pc = "done"
    /\ tasks[m].config.primaryAction = "log" /\ tasks[k].config.primaryAction = "ban"
    /\ SameButPrimary(tasks[m].config, tasks[k].config)
    /\ tasks[m].succeeded = {"warn", "ban", "delete"}
    /\ tasks[k].succeeded = {"warn", "ban", "delete"}
    /\ logs[tasks[m].log].actionTaken = "warned, banned"
    /\ logs[tasks[k].log].actionTaken = "warned, banned"

\* C25: whatever the interleaving of startBot and stopBot calls, at most one
\* client with a messageCreate listener is live, and an inbound message
\* starts at most one handler invocation.
C25_OneSubscription ==
  /\ Cardinality(LiveClients) <= 1
  /\ botState.handled <= 1

\* The hook's connections that are connecting or open.
LiveSockets == {i \in 1..Len(hook.sockets) : hook.sockets[i] \in {"connecting", "open"}}

\* C30: the hook has at most one live connection at a time, and once it is
\* unmounted no reconnect timer is pending and no connection is live (the
\* cleanup closed the last one and none is opened afterwards).
C30_NoReconnectAfterUnmount ==
  /\ Cardinality(LiveSockets) <= 1
  /\ hook.mounted = "gone" => ~hook.timer /\ LiveSockets = {}

\* C26: a task that has started comes to its end: it stops at the bot
\* filter, at the channel filter or at the decide step, or it has attempted
\* the deletion; and a task that has appended an audit entry reaches the
\* finalize step for that entry, after which the entry's text is the one
\* the finalize step writes.
C26_TaskTerminates ==
  \A m \in ExecMsgs :
    /\ tasks[m].pc # "idle" ~>
         /\ tasks[m].pc = "done"
         /\ \/ tasks[m].bot
            \/ tasks[m].calls = 0
            \/ ~tasks[m].analysis.isViolation
            \/ tasks[m].deletes = 1
    /\ tasks[m].log # 0 ~>
         /\ tasks[m].log # 0
         /\ tasks[m].pc \in {"delete", "done"}
         /\ logs[tasks[m].log].actionTaken = FinalText(tasks[m].succeeded)

\* C26 witness: a violation whose warn and ban calls and whose deletion
\* all failed has come to its end, its entry finalized with the sentinel.
C26_Witness ==
  \E m \in ExecMsgs :
    /\ tasks[m].pc = "done" /\ tasks[m].deletes = 1
    /\ tasks[m].failed = {"warn", "ban", "delete"}
    /\ logs[tasks[m].log].actionTaken = "logged"

====
